---- MODULE Spec2Model ----
(***************************************************************************)
(* Sim_Opti_Rutas.py: exhaustive search for the 3-day itinerary of minimum *)
(* total distance under a per-day time ceiling.                            *)
(*                                                                         *)
(* Location identifiers are the 0-based indices of the source.  A route is *)
(* a sequence of identifiers.  Times are exact rationals kept as integers  *)
(* in units of 1/VELOCIDAD_PROMEDIO_KMH hour (minutes at 60 km/h): the     *)
(* source's  d/V + t  hours is  d + V*t  units, and a comparison with      *)
(* MAX_TIME_PER_DAY hours is a comparison with V*MAX_TIME_PER_DAY units.   *)
(* None is <<>>; a distance is the one-element tuple <<d>>, and            *)
(* float('inf'), the distance of nothing yet recorded, is <<>>.            *)
(***************************************************************************)
EXTENDS Integers, Sequences, FiniteSets

\* ------------------------------------------------------------------ bounds
\* Largest number of free locations of a synthetic instance.
MaxFree == 4
\* Largest ceiling (hours) tried on a synthetic instance.
MaxCeiling == 6

\* ------------------------------------------------------- the fixed tables
VELOCIDAD_PROMEDIO_KMH == 60

RefLocations ==
  << "Aeropuerto", "Daikin Park", "Museo de la Salud", "NRG Stadium",
     "NASA", "Toyota Center", "USS Texas Museum", "Hotel" >>

RefDistanceRows ==
  << << 0, 30, 25, 35, 40, 32, 45, 35>>,
     <<30,  0, 12, 18, 45, 15, 35,  5>>,
     <<25, 12,  0,  8, 42,  5, 38,  2>>,
     <<35, 18,  8,  0, 40,  3, 39,  5>>,
     <<40, 45, 42, 40,  0, 38, 20, 35>>,
     <<32, 15,  5,  3, 38,  0, 36,  1>>,
     <<45, 35, 38, 39, 20, 36,  0, 30>>,
     <<35,  5,  2,  5, 35,  1, 30,  0>> >>

RefTimeRow == <<2, 3, 3, 5, 8, 2, 3, 1>>

RefMaxTimePerDay == 12

\* A sequence of rows / a row as a table over the 0-based indices.
Matrix(rows) ==
  [i \in 0..(Len(rows) - 1) |-> [j \in 0..(Len(rows) - 1) |-> rows[i + 1][j + 1]]]

Vector(row) == [i \in 0..(Len(row) - 1) |-> row[i + 1]]

\* The instance compiled into the source, with the ceiling left open.
RefInstance(ceiling) ==
  [ L |-> RefLocations, D |-> Matrix(RefDistanceRows),
    T |-> Vector(RefTimeRow), M |-> ceiling ]

\* ---------------------------------------------------- synthetic instances
\* Aeropuerto, P1, NASA, P2, ..., Pf, Hotel  (f free locations); the anchors
\* and the fixed destination keep the names the search looks up.
PlaceName(i) ==
  CASE i = 1 -> "P1" [] i = 2 -> "P2" [] i = 3 -> "P3" [] i = 4 -> "P4"
    [] i = 5 -> "P5" [] i = 6 -> "P6" [] OTHER -> "P7"

SynLocations(f, fixedName) ==
  <<"Aeropuerto">>
    \o (IF f >= 1 THEN <<PlaceName(1)>> ELSE <<>>)
    \o <<fixedName>>
    \o [i \in 1..(IF f >= 2 THEN f - 1 ELSE 0) |-> PlaceName(i + 1)]
    \o <<"Hotel">>

Abs(x) == IF x < 0 THEN -x ELSE x

\* "uniform": every leg is 30 km, so all candidates tie on distance.
\* "line": the locations lie 15 km apart on a line.
SynDistances(n, shape) ==
  [i \in 0..(n - 1) |-> [j \in 0..(n - 1) |->
     IF i = j THEN 0
     ELSE IF shape = "uniform" THEN 30 ELSE 15 * Abs(i - j)]]

\* One hour everywhere, two at the fixed destination's index.
SynTimes(f) ==
  [i \in 0..(f + 2) |-> IF i = (IF f >= 1 THEN 2 ELSE 1) THEN 2 ELSE 1]

SynInstance(f, shape, fixedName, ceiling) ==
  [ L |-> SynLocations(f, fixedName),
    D |-> SynDistances(f + 3, shape),
    T |-> SynTimes(f),
    M |-> ceiling ]

Instances ==
  { RefInstance(c) : c \in {1, 10, RefMaxTimePerDay} }
    \cup { SynInstance(f, s, "NASA", c) :
             f \in 0..MaxFree, s \in {"uniform", "line"}, c \in 1..MaxCeiling }
    \cup { SynInstance(1, "uniform", "Museo", MaxCeiling) }

\* ------------------------------------------------------------------- state
VARIABLES
  LOCATIONS, DISTANCES_KM, TIMES_AT_LOCATION, MAX_TIME_PER_DAY,  \* globals
  pc,                      \* position of the single thread of control
  stdout,                  \* what print has written, in order
  best_routes,             \* __main__'s variable: what the search returned
  idx_aeropuerto, idx_hotel, idx_nasa, places_to_visit,
  best_routes_combination, best_total_distance,
  size_iter,               \* how many values range(1, len) has handed out
  day1_size,
  day1_iter,               \* how many tuples permutations(.., day1_size) gave
  day1_places, day3_places_set,
  day3_iter,               \* how many tuples permutations(list(set)) gave
  day3_places,
  day1_route, day1_time, day2_route, day2_time, day3_route, day3_time,
  current_distance,
  report,                  \* what print_detailed_itinerary summarised
  enumerated               \* history: the (day1_places, day3_places) pairs
                           \* the three loops produced, in order

globals == <<LOCATIONS, DISTANCES_KM, TIMES_AT_LOCATION, MAX_TIME_PER_DAY>>
setup   == <<idx_aeropuerto, idx_hotel, idx_nasa, places_to_visit>>
best    == <<best_routes_combination, best_total_distance>>
loops   == <<size_iter, day1_size, day1_iter, day1_places, day3_places_set, day3_iter,
             day3_places, enumerated>>
day1    == <<day1_route, day1_time>>
day2    == <<day2_route, day2_time>>
day3    == <<day3_route, day3_time>>
vars    == <<globals, pc, stdout, report, best_routes, setup, best, loops,
             day1, day2, day3, current_distance>>

None == <<>>
Inf  == <<>>

\* ---------------------------------------------------------- pure functions
RECURSIVE FirstIndex(_, _, _)
FirstIndex(seq, x, i) ==
  IF i > Len(seq) THEN -1
  ELSE IF seq[i] = x THEN i - 1 ELSE FirstIndex(seq, x, i + 1)

\* LOCATIONS.index(loc_name); -1 stands for the ValueError it raises.
get_location_index(loc_name) == FirstIndex(LOCATIONS, loc_name, 1)

\* No dwell at the day's last location, the rule of the printed breakdown.
LegDwell_notAtEnd(route, i) ==
  IF i = Len(route) - 1 THEN 0 ELSE TIMES_AT_LOCATION[route[i + 1]]

\* The dwell charged on the leg i -> i+1 of a route.
LegDwell(route, i) == TIMES_AT_LOCATION[route[i + 1]]

RECURSIVE RouteTimeLoop(_, _, _)
RouteTimeLoop(route, i, total_time) ==
  IF i > Len(route) - 1 THEN total_time
  ELSE RouteTimeLoop(route, i + 1,
         total_time + DISTANCES_KM[route[i]][route[i + 1]]
                    + VELOCIDAD_PROMEDIO_KMH * LegDwell(route, i))

calculate_route_time(route) == RouteTimeLoop(route, 1, 0)

RECURSIVE RouteDistanceLoop(_, _, _)
RouteDistanceLoop(route, i, total_distance) ==
  IF i > Len(route) - 1 THEN total_distance
  ELSE RouteDistanceLoop(route, i + 1,
         total_distance + DISTANCES_KM[route[i]][route[i + 1]])

calculate_route_distance(route) == RouteDistanceLoop(route, 1, 0)

\* The check written with >= : a day that takes exactly the ceiling fails.
ExceedsMaxTime_atLeast(time) == time >= VELOCIDAD_PROMEDIO_KMH * MAX_TIME_PER_DAY

\* The check left out: no day is ever too long.
ExceedsMaxTime_never(time) == FALSE

\* time > MAX_TIME_PER_DAY, both sides in units of 1/V hour.
ExceedsMaxTime(time) == time > VELOCIDAD_PROMEDIO_KMH * MAX_TIME_PER_DAY

\* The comparison reversed: a longer combination replaces the recorded one.
IsBetter_reversed(current, recorded) == recorded = Inf \/ current > recorded[1]

\* The comparison written with <= : a tie replaces the recorded one.
IsBetter_orEqual(current, recorded) == recorded = Inf \/ current <= recorded[1]

\* current_distance < best_total_distance, with float('inf') as Inf.
IsBetter(current, recorded) == recorded = Inf \/ current < recorded[1]

\* [i for i in range(len(LOCATIONS)) if i not in {...}], in index order.
RECURSIVE FilterRange(_, _, _)
FilterRange(i, n, excluded) ==
  IF i >= n THEN <<>>
  ELSE (IF i \in excluded THEN <<>> ELSE <<i>>) \o FilterRange(i + 1, n, excluded)

\* range(1, len(places_to_visit) + 1): Day 1 may take every free location.
SplitSizes_inclusive(places) == [i \in 1..Len(places) |-> i]

\* range(0, len(places_to_visit)): Day 1 may take no free location.
SplitSizes_fromZero(places) == [i \in 1..Len(places) |-> i - 1]

\* range(1, len(places_to_visit)) as the sequence of values it yields.
SplitSizes(places) == [i \in 1..(Len(places) - 1) |-> i]

RemoveAt(seq, i) == SubSeq(seq, 1, i - 1) \o SubSeq(seq, i + 1, Len(seq))

\* How many tuples itertools.permutations(pool, r) yields for len(pool) = n:
\* n * (n-1) * ... * (n-r+1), none when r > n.
RECURSIVE PermutationCount(_, _)
PermutationCount(n, r) ==
  IF r > n THEN 0
  ELSE IF r = 0 THEN 1
  ELSE n * PermutationCount(n - 1, r - 1)

\* itertools.permutations(pool, r) yields the r-length arrangements of pool
\* in lexicographic order of positions; this is the tuple it yields after k
\* others: the tuples that start with one position form a block of
\* PermutationCount(n - 1, r - 1), and the blocks follow in position order.
RECURSIVE Permutations(_, _, _)
Permutations(pool, r, k) ==
  IF r = 0 THEN <<>>
  ELSE LET block == PermutationCount(Len(pool) - 1, r - 1)
           i     == (k \div block) + 1
       IN  <<pool[i]>> \o Permutations(RemoveAt(pool, i), r - 1, k % block)

SeqToSet(seq) == {seq[i] : i \in 1..Len(seq)}

\* The subtraction forgotten: Day 3 gets every free location.
Day3Set_all(places, chosen) == SeqToSet(places)

\* set(places_to_visit) - set(day1_places)
Day3Set(places, chosen) == SeqToSet(places) \ SeqToSet(chosen)

\* list(a set of small ints): CPython walks the hash table, where an int
\* below the table size sits in the slot of its own value: ascending order.
RECURSIVE SetToList(_)
SetToList(S) ==
  IF S = {} THEN <<>>
  ELSE LET m == CHOOSE x \in S : \A y \in S : x <= y
       IN  <<m>> \o SetToList(S \ {m})

\* ----------------------------------------------------------------- messages
MsgCalculando == "Calculando el itinerario optimo..."
MsgErrorDia2  == "Error: El dia 2 (NASA) excede el tiempo maximo."
MsgEncontrado == "Se encontro el mejor itinerario!"
MsgSinSolucion ==
  "No se encontro una solucion que cumpla con todas las restricciones de tiempo."

\* -------------------------------------------------------------------- Init
Init ==
  /\ \E inst \in Instances :
       /\ LOCATIONS = inst.L
       /\ DISTANCES_KM = inst.D
       /\ TIMES_AT_LOCATION = inst.T
       /\ MAX_TIME_PER_DAY = inst.M
  /\ pc = "main"
  /\ stdout = <<>>
  /\ report = None
  /\ best_routes = None
  /\ idx_aeropuerto = 0 /\ idx_hotel = 0 /\ idx_nasa = 0
  /\ places_to_visit = <<>>
  /\ best_routes_combination = None
  /\ best_total_distance = Inf
  /\ size_iter = 0 /\ day1_size = 0 /\ day1_iter = 0 /\ day3_iter = 0
  /\ day1_places = <<>> /\ day3_places_set = {} /\ day3_places = <<>>
  /\ day1_route = <<>> /\ day1_time = 0
  /\ day2_route = <<>> /\ day2_time = 0
  /\ day3_route = <<>> /\ day3_time = 0
  /\ current_distance = 0
  /\ enumerated = <<>>

\* ----------------------------------------------------------------- actions
\* __main__: the banner, then the call of find_best_routes.
Main ==
  /\ pc = "main"
  /\ stdout' = Append(stdout, MsgCalculando)
  /\ pc' = "find_best_routes"
  /\ UNCHANGED <<globals, report, best_routes, setup, best, loops,
                 day1, day2, day3, current_distance>>

\* find_best_routes, up to the first loop.  A name missing from LOCATIONS
\* raises ValueError, which nothing catches.
Setup ==
  /\ pc = "find_best_routes"
  /\ LET a == get_location_index("Aeropuerto")
         h == get_location_index("Hotel")
         n == get_location_index("NASA")
     IN  IF a = -1 \/ h = -1 \/ n = -1
         THEN /\ pc' = "raised"
              /\ UNCHANGED <<setup, best>>
         ELSE /\ idx_aeropuerto' = a
              /\ idx_hotel' = h
              /\ idx_nasa' = n
              /\ places_to_visit' = FilterRange(0, Len(LOCATIONS), {a, h, n})
              /\ best_routes_combination' = None
              /\ best_total_distance' = Inf
              /\ pc' = "for_day1_size"
  /\ UNCHANGED <<globals, stdout, report, best_routes, loops,
                 day1, day2, day3, current_distance>>

\* for day1_size in range(1, len(places_to_visit)):
ForDay1Size ==
  /\ pc = "for_day1_size"
  /\ LET sizes == SplitSizes(places_to_visit)
     IN  IF size_iter < Len(sizes)
         THEN /\ day1_size' = sizes[size_iter + 1]
              /\ size_iter' = size_iter + 1
              /\ day1_iter' = 0
              /\ pc' = "for_day1_places"
         ELSE /\ pc' = "return"
              /\ UNCHANGED <<size_iter, day1_size, day1_iter>>
  /\ UNCHANGED <<globals, stdout, report, best_routes, setup, best,
                 day1_places, day3_places_set, day3_iter, day3_places,
                 enumerated, day1, day2, day3, current_distance>>

\* for day1_places in permutations(places_to_visit, day1_size):
\*     day3_places_set = set(places_to_visit) - set(day1_places)
ForDay1Places ==
  /\ pc = "for_day1_places"
  /\ LET chosen == Permutations(places_to_visit, day1_size, day1_iter)
     IN  IF day1_iter < PermutationCount(Len(places_to_visit), day1_size)
         THEN /\ day1_places' = chosen
              /\ day1_iter' = day1_iter + 1
              /\ day3_places_set' = Day3Set(places_to_visit, chosen)
              /\ day3_iter' = 0
              /\ pc' = "for_day3_places"
         ELSE /\ pc' = "for_day1_size"
              /\ UNCHANGED <<day1_places, day1_iter, day3_places_set, day3_iter>>
  /\ UNCHANGED <<globals, stdout, report, best_routes, setup, best,
                 size_iter, day1_size, day3_places, enumerated,
                 day1, day2, day3, current_distance>>

\* for day3_places in permutations(list(day3_places_set)):
ForDay3Places ==
  /\ pc = "for_day3_places"
  /\ LET pool   == SetToList(day3_places_set)
         places == Permutations(pool, Len(pool), day3_iter)
     IN  IF day3_iter < PermutationCount(Len(pool), Len(pool))
         THEN /\ day3_places' = places
              /\ day3_iter' = day3_iter + 1
              /\ enumerated' = Append(enumerated, <<day1_places, places>>)
              /\ pc' = "day1"
         ELSE /\ pc' = "for_day1_places"
              /\ UNCHANGED <<day3_places, day3_iter, enumerated>>
  /\ UNCHANGED <<globals, stdout, report, best_routes, setup, best,
                 size_iter, day1_size, day1_iter, day1_places, day3_places_set,
                 day1, day2, day3, current_distance>>

\* Day 1: build, time, and skip the combination if it exceeds the ceiling.
Day1 ==
  /\ pc = "day1"
  /\ LET route == <<idx_aeropuerto>> \o day1_places \o <<idx_hotel>>
     IN  /\ day1_route' = route
         /\ day1_time' = calculate_route_time(route)
         /\ pc' = IF ExceedsMaxTime(calculate_route_time(route))
                  THEN "for_day3_places" ELSE "day2"
  /\ UNCHANGED <<globals, stdout, report, best_routes, setup, best, loops,
                 day2, day3, current_distance>>

\* Day 2: build, time, and give up the whole search if it exceeds the ceiling.
Day2 ==
  /\ pc = "day2"
  /\ LET route == <<idx_hotel, idx_nasa, idx_hotel>>
     IN  /\ day2_route' = route
         /\ day2_time' = calculate_route_time(route)
         /\ IF ExceedsMaxTime(calculate_route_time(route))
            THEN /\ stdout' = Append(stdout, MsgErrorDia2)
                 /\ best_routes' = None
                 /\ pc' = "main_report"
            ELSE /\ pc' = "day3"
                 /\ UNCHANGED <<stdout, best_routes>>
  /\ UNCHANGED <<globals, report, setup, best, loops, day1, day3,
                 current_distance>>

\* Day 3: build, time, and skip the combination if it exceeds the ceiling.
Day3 ==
  /\ pc = "day3"
  /\ LET route == <<idx_hotel>> \o day3_places \o <<idx_aeropuerto>>
     IN  /\ day3_route' = route
         /\ day3_time' = calculate_route_time(route)
         /\ pc' = IF ExceedsMaxTime(calculate_route_time(route))
                  THEN "for_day3_places" ELSE "update"
  /\ UNCHANGED <<globals, stdout, report, best_routes, setup, best, loops,
                 day1, day2, current_distance>>

\* The total distance of the combination and the best-so-far accumulator.
Update ==
  /\ pc = "update"
  /\ LET current == calculate_route_distance(day1_route)
                  + calculate_route_distance(day2_route)
                  + calculate_route_distance(day3_route)
     IN  /\ current_distance' = current
         /\ IF IsBetter(current, best_total_distance)
            THEN /\ best_total_distance' = <<current>>
                 /\ best_routes_combination' = <<day1_route, day2_route, day3_route>>
            ELSE UNCHANGED best
  /\ pc' = "for_day3_places"
  /\ UNCHANGED <<globals, stdout, report, best_routes, setup, loops,
                 day1, day2, day3>>

\* return best_routes_combination
Return ==
  /\ pc = "return"
  /\ best_routes' = best_routes_combination
  /\ pc' = "main_report"
  /\ UNCHANGED <<globals, stdout, report, setup, best, loops,
                 day1, day2, day3, current_distance>>

\* print_detailed_itinerary(routes): per day the route by name, its distance
\* and its time, then the totals over the three days.
DayNames(route) == [i \in 1..Len(route) |-> LOCATIONS[route[i] + 1]]

print_detailed_itinerary(routes) ==
  [ days |-> [d \in 1..Len(routes) |->
                [ ruta      |-> DayNames(routes[d]),
                  distancia |-> calculate_route_distance(routes[d]),
                  tiempo    |-> calculate_route_time(routes[d]),
                  lugares   |-> DayNames(SubSeq(routes[d], 2, Len(routes[d]) - 1)) ]],
    distancia_total |-> calculate_route_distance(routes[1])
                      + calculate_route_distance(routes[2])
                      + calculate_route_distance(routes[3]),
    tiempo_total    |-> calculate_route_time(routes[1])
                      + calculate_route_time(routes[2])
                      + calculate_route_time(routes[3]) ]

\* __main__ after the call: the itinerary, or the no-solution message.
MainReport ==
  /\ pc = "main_report"
  /\ IF best_routes # None
     THEN /\ stdout' = Append(stdout, MsgEncontrado)
          /\ report' = print_detailed_itinerary(best_routes)
     ELSE /\ stdout' = Append(stdout, MsgSinSolucion)
          /\ UNCHANGED report
  /\ pc' = "exit"
  /\ UNCHANGED <<globals, best_routes, setup, best, loops,
                 day1, day2, day3, current_distance>>

Next ==
  \/ Main
  \/ Setup
  \/ ForDay1Size
  \/ ForDay1Places
  \/ ForDay3Places
  \/ Day1
  \/ Day2
  \/ Day3
  \/ Update
  \/ Return
  \/ MainReport

Spec == Init /\ [][Next]_vars

\* ======================================================================
\* The vocabulary of the properties, stated from the tables alone and not
\* through the search's own functions.
\* ======================================================================
IndexOfName(name) == CHOOSE i \in 0..(Len(LOCATIONS) - 1) : LOCATIONS[i + 1] = name

Airport == IndexOfName("Aeropuerto")
Hotel   == IndexOfName("Hotel")
Nasa    == IndexOfName("NASA")

\* The configuration names both anchors and the fixed destination.
WellFormed == {"Aeropuerto", "Hotel", "NASA"} \subseteq SeqToSet(LOCATIONS)

\* The free locations: everything but the anchors and the fixed destination.
Free ==
  {i \in 0..(Len(LOCATIONS) - 1) : LOCATIONS[i + 1] \notin {"Aeropuerto", "Hotel", "NASA"}}

RECURSIVE SumTo(_, _)
SumTo(f, n) == IF n = 0 THEN 0 ELSE f[n] + SumTo(f, n - 1)

\* Kilometres of a route: one term per consecutive pair.
Km(route) ==
  SumTo([i \in 1..(Len(route) - 1) |-> DISTANCES_KM[route[i]][route[i + 1]]],
        Len(route) - 1)

\* Dwell hours of a route: every location arrived at, so all but the first.
DwellHours(route) ==
  SumTo([i \in 1..(Len(route) - 1) |-> TIMES_AT_LOCATION[route[i + 1]]],
        Len(route) - 1)

\* Route time in units of 1/V hour (minutes at 60 km/h).
TimeUnits(route) == Km(route) + VELOCIDAD_PROMEDIO_KMH * DwellHours(route)

Ceiling == VELOCIDAD_PROMEDIO_KMH * MAX_TIME_PER_DAY

Fits(route) == TimeUnits(route) <= Ceiling

FixedDay == <<Hotel, Nasa, Hotel>>

\* The orderings of a set: the sequences listing each member once.
Orderings(S) ==
  {s \in [1..Cardinality(S) -> S] : \A i, j \in 1..Cardinality(S) : s[i] = s[j] => i = j}

\* The search space: every split of the free locations into two non-empty
\* parts, every ordering of the first part for Day 1 and of the second for
\* Day 3.  A candidate is the pair <<Day-1 stops, Day-3 stops>>.
SearchSpace ==
  UNION { Orderings(A) \X Orderings(Free \ A) : A \in (SUBSET Free) \ {{}, Free} }

Day1Of(c) == <<Airport>> \o c[1] \o <<Hotel>>
Day3Of(c) == <<Hotel>> \o c[2] \o <<Airport>>
RoutesOf(c) == <<Day1Of(c), FixedDay, Day3Of(c)>>

TotalKm(routes) == Km(routes[1]) + Km(routes[2]) + Km(routes[3])

OpenDaysFit(c) == Fits(Day1Of(c)) /\ Fits(Day3Of(c))
Feasible(c) == OpenDaysFit(c) /\ Fits(FixedDay)

Stops(route) == SubSeq(route, 2, Len(route) - 1)

\* find_best_routes has returned to __main__.
Returned == pc \in {"main_report", "exit"}

Printed(msg) == \E k \in 1..Len(stdout) : stdout[k] = msg

\* A candidate is in hand: the loops produced it and its body is running.
InBody == pc \in {"day1", "day2", "day3", "update"}

RECURSIVE Factorial(_)
Factorial(n) == IF n <= 0 THEN 1 ELSE n * Factorial(n - 1)

\* Sum over k = 1..f-1 of [f!/(f-k)!] * (f-k)!
RECURSIVE SplitCount(_, _)
SplitCount(f, k) ==
  IF k > f - 1 THEN 0
  ELSE (Factorial(f) \div Factorial(f - k)) * Factorial(f - k) + SplitCount(f, k + 1)

CandidateCount(f) == SplitCount(f, 1)

\* ======================================================================
\* Properties
\* ======================================================================

\* C1 - Optimality.  In every configuration whose fixed day fits the
\* ceiling, once find_best_routes has returned: if the search space holds a
\* feasible candidate the result is a DayAssignment, and the total distance
\* of the result is <= the total distance of every feasible candidate.
C1_Optimality ==
  (Returned /\ WellFormed /\ Fits(FixedDay)) =>
     /\ (\E c \in SearchSpace : Feasible(c)) => best_routes # None
     /\ best_routes # None =>
          \A c \in SearchSpace :
             Feasible(c) => TotalKm(best_routes) <= TotalKm(RoutesOf(c))

\* The search returned an optimum that some feasible candidate does not reach.
C1_Witness ==
  /\ Returned /\ WellFormed /\ Fits(FixedDay)
  /\ best_routes # None
  /\ \E c \in SearchSpace :
        Feasible(c) /\ TotalKm(best_routes) < TotalKm(RoutesOf(c))

\* A day whose time is exactly the ceiling passes its check.
EqualityAccepted ==
  /\ (pc = "day1" /\ TimeUnits(day1_route') = Ceiling) => pc' = "day2"
  /\ (pc = "day2" /\ TimeUnits(day2_route') = Ceiling) => pc' = "day3"
  /\ (pc = "day3" /\ TimeUnits(day3_route') = Ceiling) => pc' = "update"

\* C2 - Ceiling enforcement.  Each of the three routes of a returned
\* DayAssignment has a route time <= the ceiling, and a day whose time
\* equals the ceiling is accepted by its check, not rejected.
C2_CeilingEnforcement ==
  /\ [](Returned /\ best_routes # None =>
          \A d \in 1..3 : Fits(best_routes[d]))
  /\ [][EqualityAccepted]_vars

\* A returned DayAssignment with a day that takes exactly the ceiling.
C2_Witness ==
  /\ Returned /\ best_routes # None
  /\ \E d \in 1..3 : TimeUnits(best_routes[d]) = Ceiling

\* The stops of the two open days list every free location exactly once.
PartitionOK(stops1, stops3) ==
  /\ Len(stops1) + Len(stops3) = Cardinality(Free)
  /\ SeqToSet(stops1) \cup SeqToSet(stops3) = Free

\* Airport + stops + Hotel, Hotel NASA Hotel, Hotel + stops + Airport.
ShapeOK(routes) ==
  /\ Len(routes) = 3
  /\ Len(routes[1]) >= 2 /\ Len(routes[3]) >= 2
  /\ routes[1][1] = Airport /\ routes[1][Len(routes[1])] = Hotel
  /\ routes[2] = <<Hotel, Nasa, Hotel>>
  /\ routes[3][1] = Hotel /\ routes[3][Len(routes[3])] = Airport
  /\ PartitionOK(Stops(routes[1]), Stops(routes[3]))

\* C3 - Partition completeness.  For every candidate the enumeration builds,
\* and for the recorded and the returned one, the Day-1 and Day-3 stops
\* together are the free locations, each exactly once and nothing else, and
\* the three routes have their fixed ends and fixed day.
C3_PartitionCompleteness ==
  /\ InBody => PartitionOK(day1_places, day3_places)
  /\ pc \in {"day2", "day3", "update"} =>
        day1_route = <<Airport>> \o day1_places \o <<Hotel>>
  /\ pc = "update" => /\ day3_route = <<Hotel>> \o day3_places \o <<Airport>>
                      /\ ShapeOK(<<day1_route, day2_route, day3_route>>)
  /\ best_routes_combination # None => ShapeOK(best_routes_combination)
  /\ best_routes # None => ShapeOK(best_routes)

\* A candidate with two stops on each open day reached the distance step.
C3_Witness ==
  /\ pc = "update"
  /\ Len(day1_places) >= 2 /\ Len(day3_places) >= 2

\* C4 - Infeasible-fixed-day short-circuit.  When the fixed day exceeds the
\* ceiling, no split is examined: no candidate is enumerated and no Day-1
\* or Day-3 route is built before the search returns "no solution".
C4_FixedDayShortCircuit ==
  (WellFormed /\ ~Fits(FixedDay)) =>
     /\ enumerated = <<>>
     /\ day1_route = <<>> /\ day3_route = <<>>
     /\ Returned => best_routes = None

\* No candidate has both open days within the ceiling.
NoOpenSplitFits == \A c \in SearchSpace : ~OpenDaysFit(c)

\* The Day 2 check ends the search at the first candidate whose Day 1 fits.
CutShortByDay2 ==
  ~Fits(FixedDay) /\ \E c \in SearchSpace : Fits(Day1Of(c))

C6_CauseReported ==
  (WellFormed /\ Returned /\ ~Fits(FixedDay)) => Printed(MsgErrorDia2)

\* Every candidate produced once, none missing, none foreign.
EnumeratedExactly ==
  /\ Len(enumerated) = CandidateCount(Cardinality(Free))
  /\ SeqToSet(enumerated) = SearchSpace
  /\ Cardinality(SearchSpace) = Len(enumerated)

Candidate == <<day1_places, day3_places>>

\* The recorded best changes only at the update step, for a feasible
\* candidate strictly shorter than the record (or with nothing recorded),
\* and becomes exactly that candidate and its total distance.
ReplacedOnlyByBetter ==
  best' # best =>
     /\ pc = "update"
     /\ Feasible(Candidate)
     /\ \/ best_total_distance = Inf
        \/ TotalKm(RoutesOf(Candidate)) < best_total_distance[1]
     /\ best_total_distance' = <<TotalKm(RoutesOf(Candidate))>>
     /\ best_routes_combination' = RoutesOf(Candidate)

\* The recorded best distance, once set, stays set and never increases.
NeverIncreases ==
  best_total_distance # Inf =>
     /\ best_total_distance' # Inf
     /\ best_total_distance'[1] <= best_total_distance[1]

\* The recorded distance is the total distance of the recorded routes.
RecordConsistent ==
  /\ (best_total_distance = Inf) <=> (best_routes_combination = None)
  /\ best_routes_combination # None =>
        best_total_distance[1] = TotalKm(best_routes_combination)

\* The result is the first enumerated among the feasible candidates of
\* minimal total distance.
FirstFoundWins ==
  (Returned /\ best_routes # None) =>
     \E i \in 1..Len(enumerated) :
        /\ RoutesOf(enumerated[i]) = best_routes
        /\ Feasible(enumerated[i])
        /\ \A j \in 1..Len(enumerated) :
              Feasible(enumerated[j]) =>
                 \/ TotalKm(RoutesOf(enumerated[j])) > TotalKm(best_routes)
                 \/ /\ TotalKm(RoutesOf(enumerated[j])) = TotalKm(best_routes)
                    /\ j >= i

\* C8 - Tie-break and accumulator discipline.  The recorded best is replaced
\* only by a feasible candidate strictly shorter than it (or when none is
\* recorded), its distance never increases and always is the total distance
\* of the recorded routes, and of several feasible candidates of minimal
\* distance the one enumerated first is returned.
C8_AccumulatorDiscipline ==
  /\ [][ReplacedOnlyByBetter /\ NeverIncreases]_vars
  /\ [](RecordConsistent /\ FirstFoundWins)

\* The result ties with a feasible candidate enumerated after it.
C8_Witness ==
  /\ Returned /\ best_routes # None
  /\ \E j \in 1..Len(enumerated) :
        /\ Feasible(enumerated[j])
        /\ RoutesOf(enumerated[j]) # best_routes
        /\ TotalKm(RoutesOf(enumerated[j])) = TotalKm(best_routes)

AllOnDay1Fits ==
  /\ Fits(<<Airport>> \o SetToList(Free) \o <<Hotel>>)
  /\ Fits(FixedDay)
  /\ Fits(<<Hotel, Airport>>)

\* C10 - Degenerate splits are excluded.  Every candidate the search
\* considers, and every returned DayAssignment, has at least one stop on
\* Day 1 and at least one on Day 3; with 0 or 1 free locations the search
\* considers nothing and returns "no solution" under every ceiling.
C10_DegenerateSplitsExcluded ==
  /\ InBody => Len(day1_places) >= 1 /\ Len(day3_places) >= 1
  /\ best_routes # None =>
        Len(Stops(best_routes[1])) >= 1 /\ Len(Stops(best_routes[3])) >= 1
  /\ (WellFormed /\ Cardinality(Free) <= 1) =>
        /\ enumerated = <<>>
        /\ best_routes_combination = None
        /\ Returned => best_routes = None

\* One free location that would fit on Day 1, and still no solution.
C10_Witness ==
  /\ pc = "exit" /\ WellFormed
  /\ Cardinality(Free) = 1
  /\ AllOnDay1Fits
  /\ best_routes = None

====
